---- MODULE Spec2Model ----
(***************************************************************************)
(* Model of the web-client shortcut service (service/shortcut.rs).         *)
(*                                                                         *)
(* Service::listen registers a keydown listener on the document and        *)
(* forgets it.  The listener closure reads the event's target, the active  *)
(* route and the key code, triggers at most one action and, when a branch  *)
(* matched, prevents the event's default.  The "close active task" action  *)
(* is spawned as a detached future that runs later against a weak handle   *)
(* of the virtual DOM.                                                     *)
(*                                                                         *)
(* The second part models the JobResult component                          *)
(* (component/job_result.rs): render builds, from the job alone, a         *)
(* container with a header, an empty body and a staging section holding    *)
(* the raw output; an external step later promotes the staged text into    *)
(* the body of the live document.                                          *)
(***************************************************************************)
EXTENDS Naturals, Sequences, FiniteSets

\* ---------------------------------------------------------------- bounds
MaxEvents == 3
MaxListeners == 2
MaxTaskId == 2
MaxLen == 2

\* ------------------------------------------------------------- key codes
ENTER == 13
ESCAPE == 27
F == 70

\* Key codes delivered by the host: the three shortcuts and one other key.
KeyCodes == {ENTER, ESCAPE, F, 65}

\* ---------------------------------------------------------------- routes
NoRoute == [cat |-> "None", id |-> 0]
Home == [cat |-> "Home", id |-> 0]
Task(id) == [cat |-> "Task", id |-> id]
Routes == {NoRoute, Home} \cup {Task(i) : i \in 1..MaxTaskId}

\* --------------------------------------------------------- event targets
\* event.target() is an Option: "none" is the absent target; a present
\* target is an HtmlInputElement ("input") or some other element ("other").
Targets == {"input", "other", "none"}
Events == [key : KeyCodes, target : Targets]

VARIABLES
    listenCalls,    \* number of calls of Service::listen so far
    listeners,      \* number of keydown listeners registered on the document
    vdomAlive,      \* TRUE while the Vdom behind the VdomWeak is alive
    route,          \* what Route::active() returns
    submitPresent,  \* ".task-details button[type=submit]" is in the DOM
    pending,        \* detached close futures spawned and not yet run
    handled,        \* number of keydown events delivered so far
    last,           \* the most recent delivery and what one listener did
    lastClose       \* the most recent run of a detached close future

VARIABLES
    job,            \* the job the JobResult component borrows
    view,           \* the most recent call of a view function and its result
    domBody         \* what the promotion step last wrote into the live body

shortcutVars == <<listenCalls, listeners, vdomAlive, route, submitPresent, pending,
                  handled, last, lastClose>>

renderVars == <<job, view, domBody>>

vars == <<listenCalls, listeners, vdomAlive, route, submitPresent, pending, handled,
          last, lastClose, job, view, domBody>>

\* ------------------------------------------------- the listener closure
\* target.has_type::<HtmlInputElement>()
HasTypeInput(target) == target = "input"

Matched(acts) == [matched |-> TRUE, threw |-> FALSE, actions |-> acts]
Unmatched == [matched |-> FALSE, threw |-> FALSE, actions |-> <<>>]
Thrown == [matched |-> FALSE, threw |-> TRUE, actions |-> <<>>]

\* utils::element::<HtmlElement>(selector): the element when it exists,
\* a defined fallback (nothing to activate) when it does not.
UtilsElementThrows(present) == IF present THEN "element" ELSE "throw"

UtilsElement(present) == IF present THEN "element" ELSE "fallback"

\* ENTER => utils::element(".task-details button[type=submit]").click()
SubmitActiveFormTwice(present) ==
    LET el == UtilsElement(present)
    IN  IF el = "throw" THEN Thrown
        ELSE IF el = "element" THEN Matched(<<"click_submit", "click_submit">>)
        ELSE Matched(<<>>)

SubmitActiveForm(present) ==
    LET el == UtilsElement(present)
    IN  IF el = "throw" THEN Thrown
        ELSE IF el = "element" THEN Matched(<<"click_submit">>)
        ELSE Matched(<<>>)

\* HomeBranch without the has_type guard on F.
HomeBranchUnguardedF(key, target) ==
    IF key = F THEN Matched(<<"focus_search">>)
    ELSE IF key = ESCAPE THEN Matched(<<"blur_search">>)
    ELSE Unmatched

\* HomeBranch with the has_type guard also on ESCAPE.
HomeBranchGuardedEscape(key, target) ==
    IF key = F /\ ~HasTypeInput(target) THEN Matched(<<"focus_search">>)
    ELSE IF key = ESCAPE /\ ~HasTypeInput(target) THEN Matched(<<"blur_search">>)
    ELSE Unmatched

\* Home => match event.key_code() { F if !input, ESCAPE, _ => return }
HomeBranch(key, target) ==
    IF key = F /\ ~HasTypeInput(target) THEN Matched(<<"focus_search">>)
    ELSE IF key = ESCAPE THEN Matched(<<"blur_search">>)
    ELSE Unmatched

\* TaskBranch without the has_type guard on ESCAPE.
TaskBranchUnguardedEscape(key, target, present) ==
    IF key = ESCAPE THEN Matched(<<"spawn_close">>)
    ELSE IF key = ENTER THEN SubmitActiveForm(present)
    ELSE Unmatched

\* Task(_) => match event.key_code() { ESCAPE if !input, ENTER, _ => return }
TaskBranch(key, target, present) ==
    IF key = ESCAPE /\ ~HasTypeInput(target) THEN Matched(<<"spawn_close">>)
    ELSE IF key = ENTER THEN SubmitActiveForm(present)
    ELSE Unmatched

\* match route { Home => ..., Task(_) => ... }
RouteBranch(rt, key, target, present) ==
    IF rt.cat = "Home" THEN HomeBranch(key, target)
    ELSE TaskBranch(key, target, present)

\* Listener that does not return early when no route is active.
ListenerNoRouteCheck(ev, rt, present) ==
    IF ev.target = "none"
    THEN [actions |-> <<>>, prevented |-> FALSE, threw |-> TRUE]
    ELSE LET b == RouteBranch(rt, ev.key, ev.target, present)
         IN  [actions |-> b.actions, prevented |-> b.matched, threw |-> b.threw]

\* Listener whose unmatched arms fall through to prevent_default.
ListenerAlwaysPrevents(ev, rt, present) ==
    IF ev.target = "none"
    THEN [actions |-> <<>>, prevented |-> FALSE, threw |-> TRUE]
    ELSE IF rt = NoRoute
    THEN [actions |-> <<>>, prevented |-> FALSE, threw |-> FALSE]
    ELSE LET b == RouteBranch(rt, ev.key, ev.target, present)
         IN  [actions |-> b.actions, prevented |-> ~b.threw, threw |-> b.threw]

\* Listener that prevents default only while the application is alive.
ListenerChecksAlive(ev, rt, present) ==
    IF ev.target = "none"
    THEN [actions |-> <<>>, prevented |-> FALSE, threw |-> TRUE]
    ELSE IF rt = NoRoute
    THEN [actions |-> <<>>, prevented |-> FALSE, threw |-> FALSE]
    ELSE LET b == RouteBranch(rt, ev.key, ev.target, present)
         IN  [actions |-> b.actions, prevented |-> b.matched /\ vdomAlive,
              threw |-> b.threw]

\* The closure body: unwrap the target, resolve the route, take the branch,
\* and prevent default when the branch did not return early.
Listener(ev, rt, present) ==
    IF ev.target = "none"
    THEN [actions |-> <<>>, prevented |-> FALSE, threw |-> TRUE]
    ELSE IF rt = NoRoute
    THEN [actions |-> <<>>, prevented |-> FALSE, threw |-> FALSE]
    ELSE LET b == RouteBranch(rt, ev.key, ev.target, present)
         IN  [actions |-> b.actions, prevented |-> b.matched, threw |-> b.threw]

\* ------------------------------------------------- the JobResult views
\* Characters of an output string; a string is a sequence of them.
Chars == {"<", "b"}
Strings == UNION {[1..k -> Chars] : k \in 0..MaxLen}

\* Option<String>
None == [some |-> FALSE, val |-> <<>>]
Some(str) == [some |-> TRUE, val |-> str]

\* Output { html: Option<String> }
Outputs == {None} \cup {Some(str) : str \in Strings}

\* Job { status }: Succeeded and Failed carry an Output, the others none.
Terminal == {"Succeeded", "Failed"}
NonTerminal == {"Pending", "Running"}
PendingJob == [status |-> "Pending", html |-> None]
Jobs == [status : Terminal, html : Outputs] \cup [status : NonTerminal, html : {None}]

\* dodrio nodes: elements with attributes and children, and text nodes.
Element(tag, attrs, children) ==
    [tag |-> tag, attrs |-> attrs, children |-> children, text |-> <<>>]
Text(str) == [tag |-> "#text", attrs |-> <<>>, children |-> <<>>, text |-> str]
NoNode == [tag |-> "none", attrs |-> <<>>, children |-> <<>>, text |-> <<>>]

\* A view function returns a node, or panics at unreachable!().
Ok(node) == [ok |-> TRUE, node |-> node]
Panic == [ok |-> FALSE, node |-> NoNode]

\* header with a blank title for the other statuses.
HeaderBlank(j) ==
    LET title == IF j.status = "Succeeded" THEN <<"Success!">>
                 ELSE IF j.status = "Failed" THEN <<"Failed!">>
                 ELSE <<>>
    IN  Ok(Element("header", <<>>, <<
            Element("div", <<>>, <<
                Element("div", << <<"class", "status">> >>, <<
                    Element("div", <<>>, <<Text(title)>>) >>) >>) >>))

\* header with the two titles exchanged.
HeaderSwapped(j) ==
    IF j.status \notin Terminal THEN Panic
    ELSE LET title == IF j.status = "Succeeded" THEN <<"Failed!">> ELSE <<"Success!">>
         IN  Ok(Element("header", <<>>, <<
                 Element("div", <<>>, <<
                     Element("div", << <<"class", "status">> >>, <<
                         Element("div", <<>>, <<Text(title)>>) >>) >>) >>))

\* Views::header
Header(j) ==
    IF j.status \notin Terminal THEN Panic
    ELSE LET title == IF j.status = "Succeeded" THEN <<"Success!">> ELSE <<"Failed!">>
         IN  Ok(Element("header", <<>>, <<
                 Element("div", <<>>, <<
                     Element("div", << <<"class", "status">> >>, <<
                         Element("div", <<>>, <<Text(title)>>) >>) >>) >>))

\* Views::body
Body(j) == Ok(Element("section", << <<"class", "body">> >>, <<>>))

\* html.as_ref().unwrap_or(&"".to_owned())
UnwrapOr(opt, default) == IF opt.some THEN opt.val ELSE default

\* "<" and ">" written as character references.
RECURSIVE Escape(_)
Escape(str) ==
    IF str = <<>> THEN <<>>
    ELSE (IF Head(str) = "<" THEN <<"&", "l", "t", ";">>
          ELSE IF Head(str) = ">" THEN <<"&", "g", "t", ";">>
          ELSE <<Head(str)>>) \o Escape(Tail(str))

FromStrInEscaped(str) == Escape(str)

\* BString::from_str_in(s, bump).into_bump_str(): the characters of s,
\* copied one by one into the bump arena.
FromStrIn(str) == [i \in 1..Len(str) |-> str[i]]

\* section(&cx).attr("class", "staging")
StagingAttrs == << <<"class", "staging">> >>

\* Views::staging
Staging(j) ==
    IF j.status \notin Terminal THEN Panic
    ELSE Ok(Element("section", StagingAttrs,
                    <<Text(FromStrIn(UnwrapOr(j.html, <<>>)))>>))

\* The class of the container.
ContainerClass(j) ==
    IF j.status = "Succeeded" THEN "job-result success" ELSE "job-result failed"

\* Render::render
Render(j) ==
    IF j.status \notin Terminal THEN Panic
    ELSE LET h == Header(j)
             b == Body(j)
             st == Staging(j)
         IN  IF ~h.ok \/ ~b.ok \/ ~st.ok THEN Panic
             ELSE Ok(Element("div", << <<"class", ContainerClass(j)>> >>,
                             <<h.node, b.node, st.node>>))

ViewFns == {"render", "header", "body", "staging"}

\* One call of a view function of JobResult::new(job).
CallView(fn, j) ==
    IF fn = "render" THEN Render(j)
    ELSE IF fn = "header" THEN Header(j)
    ELSE IF fn = "body" THEN Body(j)
    ELSE Staging(j)

\* The text content of a node: the text of its descendants, in order.
RECURSIVE TextContent(_)
RECURSIVE TextOfAll(_)
TextContent(node) ==
    IF node.tag = "#text" THEN node.text ELSE TextOfAll(node.children)
TextOfAll(nodes) ==
    IF nodes = <<>> THEN <<>>
    ELSE TextContent(Head(nodes)) \o TextOfAll(Tail(nodes))

\* The value of an attribute of a node, <<>> when it is not set.
RECURSIVE AttrIn(_, _)
AttrIn(attrs, name) ==
    IF attrs = <<>> THEN <<>>
    ELSE IF Head(attrs)[1] = name THEN <<Head(attrs)[2]>>
    ELSE AttrIn(Tail(attrs), name)

NoView == [called |-> FALSE, job |-> PendingJob, fn |-> "render",
           ok |-> TRUE, node |-> NoNode]

\* ----------------------------------------------------------------- state
NoDelivery ==
    [seq |-> 0, key |-> 0, target |-> "none", route |-> NoRoute,
     submit |-> FALSE, alive |-> TRUE, invocations |-> 0, spawned |-> 0,
     actions |-> <<>>, prevented |-> FALSE, threw |-> FALSE]

NoClose == [ran |-> FALSE, seq |-> 0, alive |-> TRUE, acted |-> FALSE, err |-> FALSE]

Init ==
    /\ listenCalls = 0
    /\ listeners = 0
    /\ vdomAlive = TRUE
    /\ route = NoRoute
    /\ submitPresent = FALSE
    /\ pending = <<>>
    /\ handled = 0
    /\ last = NoDelivery
    /\ lastClose = NoClose
    /\ job = PendingJob
    /\ view = NoView
    /\ domBody = <<>>

\* n copies of x
RECURSIVE Copies(_, _)
Copies(n, x) == IF n = 0 THEN <<>> ELSE <<x>> \o Copies(n - 1, x)

\* spawn_local run inline: the futures have completed when it returns.
SpawnLocalInline(queue, n, seq) == queue

\* spawn_local that replaces the futures still waiting.
SpawnLocalReplaces(queue, n, seq) == Copies(n, seq)

\* spawn_local that skips a close call while one is still waiting.
SpawnLocalCoalesced(queue, n, seq) ==
    IF queue # <<>> THEN queue ELSE queue \o Copies(n, seq)

\* spawn_local(future): each future is queued behind those already waiting
\* and runs on a later tick.
SpawnLocal(queue, n, seq) == queue \o Copies(n, seq)

\* pub(crate) fn listen(&self, vdom: VdomWeak): no return value.
ListenReturn == "unit"

\* EventListener::new_with_options(document, "keydown", ...).forget():
\* the listener is registered and its handle is leaked, never dropped.
ListenDropped(n) == n

Registered(n) == n + 1

Listen ==
    /\ listenCalls < MaxListeners
    /\ listenCalls' = listenCalls + 1
    /\ listeners' = Registered(listeners)
    /\ UNCHANGED <<vdomAlive, route, submitPresent, pending, handled, last, lastClose,
                   job, view, domBody>>

\* The host delivers one keydown event: every registered listener runs the
\* closure to completion, one after the other, before anything else happens.
KeyDown ==
    /\ handled < MaxEvents
    /\ \E ev \in Events :
        LET out == Listener(ev, route, submitPresent)
            spawned == IF \E i \in 1..Len(out.actions) : out.actions[i] = "spawn_close"
                       THEN listeners ELSE 0
        IN  /\ handled' = handled + 1
            /\ pending' = SpawnLocal(pending, spawned, handled + 1)
            /\ last' = [seq |-> handled + 1, key |-> ev.key, target |-> ev.target,
                        route |-> route, submit |-> submitPresent,
                        alive |-> vdomAlive, invocations |-> listeners,
                        spawned |-> spawned,
                        actions |-> IF listeners = 0 THEN <<>> ELSE out.actions,
                        prevented |-> listeners > 0 /\ out.prevented,
                        threw |-> listeners > 0 /\ out.threw]
    /\ UNCHANGED <<listenCalls, listeners, vdomAlive, route, submitPresent, lastClose,
                   job, view, domBody>>

\* vdom.with_component(f): f runs only when the weak handle still upgrades.
WithComponentAlways(alive) == TRUE

WithComponent(alive) == alive

\* .map_err(|_| ()) handed to spawn_local: the VdomDroppedError is mapped
\* to () and dropped with the future; nothing is raised.
MapErr(alive) == FALSE

\* A detached close future runs (spawn_local polls it on a later tick).
RunClose ==
    /\ pending # <<>>
    /\ pending' = Tail(pending)
    /\ lastClose' = [ran |-> TRUE, seq |-> Head(pending), alive |-> vdomAlive,
                     acted |-> WithComponent(vdomAlive),
                     err |-> MapErr(vdomAlive)]
    /\ UNCHANGED <<listenCalls, listeners, vdomAlive, route, submitPresent, handled, last,
                   job, view, domBody>>

\* The application is torn down: the Vdom is dropped, the weak handle dies.
Teardown ==
    /\ vdomAlive
    /\ vdomAlive' = FALSE
    /\ UNCHANGED <<listenCalls, listeners, route, submitPresent, pending, handled, last, lastClose,
                   job, view, domBody>>

\* The router resolves another route and the view shows or hides the
\* task-details submit control.
Navigate ==
    /\ \E r \in Routes, s \in BOOLEAN :
        /\ <<r, s>> # <<route, submitPresent>>
        /\ route' = r
        /\ submitPresent' = s
    /\ UNCHANGED <<listenCalls, listeners, vdomAlive, pending, handled, last, lastClose,
                   job, view, domBody>>

Next == Listen \/ KeyDown \/ RunClose \/ Teardown \/ Navigate

Spec == Init /\ [][Next]_vars

TypeOK ==
    /\ listenCalls \in 0..MaxListeners
    /\ listeners \in 0..MaxListeners
    /\ vdomAlive \in BOOLEAN
    /\ route \in Routes
    /\ submitPresent \in BOOLEAN
    /\ handled \in 0..MaxEvents
    /\ Len(pending) <= MaxEvents * MaxListeners

\* -------------------------------------------------- the render pipeline
\* A render pass that puts the promoted content back into the body.
RenderPassKeepsBody(fn, j, prev, promoted) ==
    LET r == CallView(fn, j)
    IN  IF fn = "render" /\ r.ok /\ promoted # <<>>
        THEN Ok([r.node EXCEPT !.children[2].children = <<Text(promoted)>>])
        ELSE r

\* A render pass builds its nodes from self.job alone: neither the previous
\* pass nor the live body is an input of the view functions.
RenderPass(fn, j, prev, promoted) == CallView(fn, j)

\* The model layer replaces the job the component is created for.
SetJob ==
    /\ view.ok
    /\ \E j \in Jobs :
        /\ j # job
        /\ job' = j
    /\ UNCHANGED <<view, domBody>>
    /\ UNCHANGED shortcutVars

\* A view function is called for the current job; a panic ends the program.
CallViewFn ==
    /\ view.ok
    /\ \E fn \in ViewFns :
        LET r == RenderPass(fn, job, view, domBody)
        IN  view' = [called |-> TRUE, job |-> job, fn |-> fn,
                     ok |-> r.ok, node |-> r.node]
    /\ UNCHANGED <<job, domBody>>
    /\ UNCHANGED shortcutVars

\* The external promotion step reads the staged text of the rendered tree
\* and writes it, parsed, into the body of the live document.
Promote ==
    /\ view.called /\ view.ok /\ view.fn = "render"
    /\ domBody' = TextContent(view.node.children[3])
    /\ domBody' # domBody
    /\ UNCHANGED <<job, view>>
    /\ UNCHANGED shortcutVars

NextRender == SetJob \/ CallViewFn \/ Promote

SpecRender == Init /\ [][NextRender]_vars

TypeOKRender ==
    /\ job \in Jobs
    /\ view.job \in Jobs
    /\ view.fn \in ViewFns
    /\ view.ok \in BOOLEAN
    /\ domBody \in Strings

\* ------------------------------------------------------------ properties
\* An event was delivered to at least one listener.
Handled == last.invocations >= 1

\* The delivered event had a target, so has_type could be asked of it.
HasTarget == last.target \in {"input", "other"}

\* C1: on Home with key F, a target that is not a text input gets exactly
\* one focus_search and default prevented; a text-input target gets no
\* action and default is not prevented.
C1_HomeF ==
    (Handled /\ HasTarget /\ last.route = Home /\ last.key = F) =>
        IF last.target = "input"
        THEN last.actions = <<>> /\ ~last.prevented /\ last.spawned = 0
        ELSE last.actions = <<"focus_search">> /\ last.prevented /\ last.spawned = 0

C1_Witness ==
    /\ Handled /\ last.route = Home /\ last.key = F
    /\ last.target = "other" /\ last.actions = <<"focus_search">>

\* C2: on Task(id) with key Escape, a target that is not a text input starts
\* exactly one close call per listener run and default is prevented; a
\* text-input target starts nothing and default is not prevented.
C2_TaskEscape ==
    (Handled /\ HasTarget /\ last.route.cat = "Task" /\ last.key = ESCAPE) =>
        IF last.target = "input"
        THEN last.actions = <<>> /\ ~last.prevented /\ last.spawned = 0
        ELSE /\ last.actions = <<"spawn_close">>
             /\ last.prevented
             /\ last.spawned = last.invocations

C2_Witness ==
    /\ Handled /\ last.route = Task(MaxTaskId) /\ last.key = ESCAPE
    /\ last.target = "other" /\ last.spawned >= 1

\* C3: on Home with key Escape, blur_search is triggered and default is
\* prevented, for a text-input target as for any other target.
C3_HomeEscape ==
    (Handled /\ HasTarget /\ last.route = Home /\ last.key = ESCAPE) =>
        last.actions = <<"blur_search">> /\ last.prevented

C3_Witness ==
    /\ Handled /\ last.route = Home /\ last.key = ESCAPE
    /\ last.target = "input" /\ last.prevented

\* C4: on Task(id) with key Enter and the submit control present, the
\* listener clicks the control exactly once, starts no controller call and
\* prevents default, for a text-input target as for any other target.
C4_TaskEnterClicks ==
    (Handled /\ HasTarget /\ last.route.cat = "Task" /\ last.key = ENTER
        /\ last.submit) =>
        last.actions = <<"click_submit">> /\ last.spawned = 0 /\ last.prevented

C4_Witness ==
    /\ Handled /\ last.route.cat = "Task" /\ last.key = ENTER
    /\ last.submit /\ last.target = "input" /\ last.actions = <<"click_submit">>

\* C5: on Task(id) with key Enter and no submit control, the listener does
\* not throw, triggers nothing, and the listener stays registered for the
\* events that follow.
C5_TaskEnterNoControl ==
    (Handled /\ HasTarget /\ last.route.cat = "Task" /\ last.key = ENTER
        /\ ~last.submit) =>
        /\ ~last.threw
        /\ last.actions = <<>>
        /\ last.spawned = 0
        /\ listeners >= last.invocations

C5_Witness ==
    /\ Handled /\ HasTarget /\ last.route.cat = "Task" /\ last.key = ENTER
    /\ ~last.submit /\ ~last.threw

\* C6: when the event has no target, the failure is swallowed: nothing is
\* thrown out of the listener, no action is triggered and default is not
\* prevented.
C6_FailureSwallowed ==
    (Handled /\ last.target = "none") =>
        ~last.threw /\ last.actions = <<>> /\ ~last.prevented

\* C7: with no active route, for every key and every type of target, no
\* action is triggered, default is not prevented and the listener does not
\* throw.
C7_NoRoute ==
    (Handled /\ HasTarget /\ last.route = NoRoute) =>
        /\ last.actions = <<>>
        /\ last.spawned = 0
        /\ ~last.prevented
        /\ ~last.threw

C7_Witness ==
    /\ Handled /\ last.route = NoRoute /\ last.key = ESCAPE
    /\ last.target = "other" /\ ~last.prevented

\* The shortcut table: the (route, key, target) combinations with a branch.
HasShortcut(rt, key, target) ==
    /\ target \in {"input", "other"}
    /\ \/ rt = Home /\ key = F /\ target = "other"
       \/ rt = Home /\ key = ESCAPE
       \/ rt.cat = "Task" /\ key = ESCAPE /\ target = "other"
       \/ rt.cat = "Task" /\ key = ENTER

\* C8: an event whose (route, key, target) has no shortcut triggers no
\* action and default is not prevented; default is prevented only on events
\* that have a shortcut.
C8_UnmatchedLeftAlone ==
    Handled =>
        /\ ~HasShortcut(last.route, last.key, last.target) =>
              last.actions = <<>> /\ last.spawned = 0 /\ ~last.prevented
        /\ last.prevented => HasShortcut(last.route, last.key, last.target)

C8_Witness ==
    /\ Handled /\ last.route.cat = "Task" /\ last.target = "other"
    /\ last.key \notin {ENTER, ESCAPE, F} /\ ~last.prevented

\* C9: a detached close call that runs after the application was torn down
\* performs no controller action and raises nothing, and the listener is
\* still registered.
C9_CloseAfterTeardown ==
    (lastClose.ran /\ ~lastClose.alive) =>
        ~lastClose.acted /\ ~lastClose.err /\ listeners >= 1

C9_Witness == lastClose.ran /\ ~lastClose.alive /\ ~lastClose.acted

Rendered == view.called /\ view.ok /\ view.fn = "render"

\* The staging node of the latest result, for render and for staging.
StagingNode == IF view.fn = "render" THEN view.node.children[3] ELSE view.node

\* C11: rendering a Succeeded job gives a container of class
\* "job-result success" with header text "Success!", rendering a Failed job
\* one of class "job-result failed" with header text "Failed!", for every
\* output; the children are header, body, staging, in this order.
C11_ContainerAndHeader ==
    Rendered =>
        LET n == view.node
            succeeded == view.job.status = "Succeeded"
        IN  /\ n.tag = "div"
            /\ n.attrs = << <<"class", IF succeeded THEN "job-result success"
                                       ELSE "job-result failed">> >>
            /\ Len(n.children) = 3
            /\ n.children[1].tag = "header"
            /\ TextContent(n.children[1]) =
                   (IF succeeded THEN <<"Success!">> ELSE <<"Failed!">>)
            /\ AttrIn(n.children[1].children[1].children[1].attrs, "class") = <<"status">>
            /\ AttrIn(n.children[2].attrs, "class") = <<"body">>
            /\ AttrIn(n.children[3].attrs, "class") = <<"staging">>

C11_Witness ==
    /\ Rendered /\ view.job.status = "Failed" /\ view.job.html.some
    /\ TextContent(view.node.children[1]) = <<"Failed!">>

\* C12: for a terminal job the staging node holds one text node whose
\* content is the output's raw string, character for character, or the
\* empty string when the output has no content.
C12_StagingRawText ==
    (view.called /\ view.ok /\ view.fn \in {"render", "staging"}) =>
        /\ Len(StagingNode.children) = 1
        /\ StagingNode.children[1].tag = "#text"
        /\ TextContent(StagingNode) =
               (IF view.job.html.some THEN view.job.html.val ELSE <<>>)

C12_Witness ==
    /\ Rendered /\ view.job.html.some
    /\ Len(view.job.html.val) = MaxLen /\ view.job.html.val[1] = "<"
    /\ TextContent(view.node.children[3]) = view.job.html.val

\* C13: whatever was rendered or promoted before, a render pass gives an
\* empty body, and a pass that follows a pass for the same job gives the
\* same header and the same staging.
C13_RenderFromJobOnly ==
    /\ [](Rendered => view.node.children[2].children = <<>>)
    /\ [][(Rendered /\ Rendered' /\ view'.job = view.job) =>
            /\ view'.node.children[1] = view.node.children[1]
            /\ view'.node.children[3] = view.node.children[3]]_vars

C13_Witness ==
    /\ Rendered /\ domBody # <<>>
    /\ domBody # TextContent(view.node.children[3])
    /\ view.node.children[2].children = <<>>

\* C14: for a Pending or Running job, render, header and staging panic;
\* none of them returns a node.
C14_NonTerminalPanics ==
    (view.called /\ view.job.status \in NonTerminal
        /\ view.fn \in {"render", "header", "staging"}) =>
        ~view.ok /\ view.node = NoNode

C14_Witness ==
    /\ view.called /\ view.job.status = "Running" /\ view.fn = "header"
    /\ ~view.ok

\* C15: the staging node of every rendered tree carries a hidden or inert
\* attribute set by the render pass.
C15_StagingMarkedHidden ==
    (view.called /\ view.ok /\ view.fn \in {"render", "staging"}) =>
        \/ AttrIn(StagingNode.attrs, "hidden") # <<>>
        \/ AttrIn(StagingNode.attrs, "inert") # <<>>
        \/ AttrIn(StagingNode.attrs, "style") # <<>>

\* A delivery step for Escape on a Task route with a target that is not a
\* text input.
EscapeOnTaskStep ==
    /\ handled' = handled + 1
    /\ last'.invocations >= 1
    /\ last'.route.cat = "Task" /\ last'.key = ESCAPE /\ last'.target = "other"

\* C16: on Task(id) with Escape and a non-input target the listener only
\* starts the close call: when it returns, default is prevented, the call
\* is waiting and has not run; it runs in a later step.
C16_CloseIsDetached ==
    [][EscapeOnTaskStep =>
        /\ last'.prevented
        /\ lastClose' = lastClose
        /\ Len(pending') >= last'.invocations
        /\ \A i \in 1..last'.invocations :
              pending'[Len(pending') + 1 - i] = handled']_vars

C16_Witness ==
    /\ Handled /\ last.prevented /\ last.spawned >= 1
    /\ pending # <<>> /\ pending[Len(pending)] = last.seq
    /\ ~(lastClose.ran /\ lastClose.seq = last.seq)

\* C17: events are dispatched in delivery order, one at a time: a delivery
\* step dispatches exactly the next event, completely, and neither runs nor
\* disturbs the close calls still waiting from earlier events.
C17_OneEventAtATime ==
    /\ [](last.seq = handled)
    /\ [](\A i \in 1..Len(pending) :
            /\ pending[i] <= handled
            /\ i > 1 => pending[i - 1] <= pending[i])
    /\ [][handled' # handled =>
            /\ handled' = handled + 1
            /\ Len(pending') >= Len(pending)
            /\ SubSeq(pending', 1, Len(pending)) = pending
            /\ lastClose' = lastClose]_vars

C17_Witness ==
    /\ Handled /\ pending # <<>> /\ pending[1] < last.seq
    /\ last.prevented /\ ~lastClose.ran

\* C18: at most one keydown listener is registered at any time, so each
\* event is dispatched at most once.
C18_AtMostOneListener == listeners <= 1 /\ last.invocations <= 1

\* C19: on Task(id) with Escape and a non-input target, default is
\* prevented and the close call is started also when the application has
\* been torn down.
C19_PreventedWhenTornDown ==
    (Handled /\ last.route.cat = "Task" /\ last.key = ESCAPE
        /\ last.target = "other" /\ ~last.alive) =>
        last.prevented /\ last.spawned = last.invocations

C19_Witness ==
    /\ Handled /\ last.route.cat = "Task" /\ last.key = ESCAPE
    /\ last.target = "other" /\ ~last.alive /\ last.prevented
    /\ lastClose.ran /\ lastClose.seq = last.seq /\ ~lastClose.acted

\* C20: close calls are not coalesced: every Escape on a Task route with a
\* non-input target adds one waiting call per listener run behind the calls
\* already waiting.
C20_CloseNotCoalesced ==
    [][EscapeOnTaskStep =>
        pending' = pending \o [i \in 1..last'.invocations |-> handled']]_vars

C20_Witness ==
    /\ Handled /\ last.actions = <<"click_submit">> /\ last.prevented
    /\ Len(pending) >= 2
    /\ pending[1] < pending[Len(pending)]
    /\ pending[Len(pending)] < last.seq

====
